---- MODULE Spec2Model ----
(***************************************************************************)
(* State-machine model of package icalcache (icalcache.go): one Cache      *)
(* instance, a set of goroutines calling Cache.Get concurrently, the local *)
(* clock and the upstream server as the environment. SpecShared adds a     *)
(* second Cache instance of the same process, which writes the TLS policy  *)
(* of the package-level client.                                            *)
(*                                                                         *)
(* Time is counted in units of 30 seconds; Unix stamps use the same unit.  *)
(***************************************************************************)
EXTENDS Integers, Sequences, FiniteSets, TLC

\* ---------------------------------------------------------------- bounds
NumProcs == 2        \* goroutines calling Get
MaxNow == 5          \* the clock runs from StartNow to MaxNow at most,
MaxPeriods == 3      \* and for MaxPeriods staleness intervals at most
MaxInterval == 1     \* configured Interval ranges over 0..MaxInterval
MaxEntries == 2      \* entries in an upstream calendar body
MaxLM == 3           \* Last-Modified header stamps range over 0..MaxLM (the
                     \* upstream's clock may be ahead of the local one)
HeapSize == 3        \* backing arrays alive at once

\* ------------------------------------------------------ program constants
MinInterval == 1     \* 30 * time.Second
DefaultInterval == 4 \* 2 * time.Minute
StartNow == 1        \* the clock at construction (after the Unix epoch)
ZeroTime == 0 - 1000 \* time.Time{} : the zero value of lastChecked (year 1)

Procs == 1..NumProcs
ArrIds == 1..HeapSize

\* error values returned by Get (the operation label of fmt.Errorf)
ErrNil == "nil"
ErrHeadReq == "making upstream header request"
ErrHead == "getting upstream headers"
ErrGet == "getting upstream data"
ErrDecode == "decoding upstream ical data"
ErrExtract == "getting property"
ErrPending == "pending"

\* ---------------------------------------------------------------- values
\* type Event: the extracted record (UID stands for all its fields)
Event(uid) == [UID |-> uid]
ZeroEvent == Event(0)

\* a decoded calendar entry: valid = every typed accessor of lines 150-203
\* succeeds on it
Entries == {[UID |-> 1, valid |-> TRUE], [UID |-> 2, valid |-> TRUE],
            [UID |-> 1, valid |-> FALSE]}

RECURSIVE SeqsUpTo(_, _)
SeqsUpTo(S, n) ==
    IF n = 0 THEN {<<>>}
    ELSE LET shorter == SeqsUpTo(S, n - 1)
         IN  shorter \cup {Append(s, e) : s \in {t \in shorter : Len(t) = n - 1}, e \in S}

\* upstream response bodies: an empty file (the decoder reports io.EOF), a
\* body the decoder rejects, or a calendar with entries
Bodies ==
    {[kind |-> "eof", entries |-> <<>>], [kind |-> "garbage", entries |-> <<>>]}
    \cup {[kind |-> "cal", entries |-> es] : es \in SeqsUpTo(Entries, MaxEntries)}

\* Last-Modified header of a probe response: absent, in another date format,
\* or in the layout "Mon, 02 Jan 2006 15:04:05 GMT"
Headers ==
    {[fmt |-> "absent", t |-> 0], [fmt |-> "other", t |-> 0]}
    \cup {[fmt |-> "httpdate", t |-> t] : t \in 0..MaxLM}

\* time.Parse("Mon, 02 Jan 2006 15:04:05 GMT", resp.Header.Get("Last-Modified"))
ParseLastModified(h) ==
    IF h.fmt = "httpdate" THEN [ok |-> TRUE, unix |-> h.t] ELSE [ok |-> FALSE, unix |-> 0]

\* ----------------------------------------------------------- fingerprint
\* the bytes of a body as the TeeReader feeds them to the hash
EntryByte(e) == 16 + 2 * e.UID + (IF e.valid THEN 1 ELSE 0)

RECURSIVE EntryBytes(_)
EntryBytes(es) ==
    IF es = <<>> THEN <<>> ELSE <<EntryByte(Head(es))>> \o EntryBytes(Tail(es))

BodyBytes(b) ==
    CASE b.kind = "eof" -> <<>>
      [] b.kind = "garbage" -> <<7>>
      [] OTHER -> <<1>> \o EntryBytes(b.entries) \o <<2>>

\* fnv.New64 (FNV-1), kept to its low HashBits bits: the low bits of the
\* product and of the xor depend on the low bits of the operands only
HashBits == 16
HashMod == 2 ^ HashBits
FnvOffset == 8997    \* 0xcbf29ce484222325 % 2^16
FnvPrime == 435      \* 0x100000001b3 % 2^16

RECURSIVE Xor(_, _)
Xor(a, b) ==
    IF a = 0 THEN b
    ELSE IF b = 0 THEN a
    ELSE (((a % 2) + (b % 2)) % 2) + 2 * Xor(a \div 2, b \div 2)

RECURSIVE FnvWrite(_, _)
FnvWrite(h, bytes) ==
    IF bytes = <<>> THEN h
    ELSE FnvWrite(Xor((h * FnvPrime) % HashMod, Head(bytes)), Tail(bytes))

\* base64.StdEncoding.EncodeToString(hash.Sum(nil)) on the two low bytes:
\* three base64 digits (the third carries 4 bits)
EncodeToString(h) == <<h \div 1024, (h \div 16) % 64, (h % 16) * 4>>

\* the fingerprint of every body, computed once
HashTable == [b \in Bodies |-> EncodeToString(FnvWrite(FnvOffset, BodyBytes(b)))]

\* lines 128-139: hashSum of the body read through the TeeReader
HashSum(b) == HashTable[b]

\* -------------------------------------------------------------- variables
VARIABLES
    URL,            \* Config.URL: "", "invalid" (http.NewRequest rejects it), "valid"
    SkipTLSVerify,  \* Config.SkipTLSVerify
    InsecureSkipVerify, \* client.Transport.TLSClientConfig.InsecureSkipVerify, which
                    \* every Cache instance of the process shares
    shared,         \* a second Cache instance with the opposite SkipTLSVerify uses client
    Interval,       \* Cache.Interval
    lock,           \* Cache.lock is held
    events,         \* Cache.events: slice header [arr, len]
    heap,           \* backing arrays of []Event slices
    lastChecked,    \* Cache.lastChecked
    lastHashSum,    \* Cache.lastHashSum
    lastModified,   \* Cache.lastModified
    now,            \* time.Now()
    pc,             \* position of each goroutine in Get
    resp,           \* local resp of the probe, in the goroutine holding the lock
    httpLastModifiedWasAvailable, \* local of the goroutine holding the lock
    ret,            \* what the most recently returned call returned
    pre,            \* history: the store when the in-flight attempt passed the gate
    good,           \* history: result of the last fully successful decode-and-extract
    lastHeadAt,     \* history: the time the last HEAD request was sent
    refreshRet,     \* history: what the last call that passed the gate returned, and
                    \* the Last-Modified stamp it adopted at line 111 (NoStamp if none)
    blockedOn,      \* history: callers that were waiting when that call returned
    fetched,        \* history: the body the last full fetch received, until the next
                    \* call takes the lock
    overwritten,    \* history: the sequence the call before the last returned, as its
                    \* caller got it and as its caller sees it since the last call
                    \* (Intact unless they differ)
    timed,          \* the calls are made one after the other and their times recorded
    invoked,        \* history, when timed: the time each running call was invoked
    retInv          \* history, when timed: the time the last returned call was invoked

store == <<events, lastHashSum, lastModified>>
config == <<URL, SkipTLSVerify, shared>>
locals == <<resp, httpLastModifiedWasAvailable>>
hist == <<pre, good, lastHeadAt, refreshRet, blockedOn, fetched>>
times == <<timed, invoked, retInv>>
vars == <<URL, SkipTLSVerify, InsecureSkipVerify, shared, Interval, lock, events, heap, lastChecked, lastHashSum, lastModified,
          now, pc, resp, httpLastModifiedWasAvailable, ret,
          pre, good, lastHeadAt, refreshRet, blockedOn, fetched, overwritten,
          timed, invoked, retInv>>

\* ----------------------------------------------------------------- slices
NilSlice == [arr |-> 0, len |-> 0]

Cap(h, s) == IF s.arr = 0 THEN 0 ELSE Len(h[s.arr])

\* the elements a holder of slice s sees in heap h
Contents(h, s) == IF s.arr = 0 THEN <<>> ELSE SubSeq(h[s.arr], 1, s.len)

\* cache.events[:0]
Truncate(s) == [arr |-> s.arr, len |-> 0]

\* growslice: capacity 0 -> 1, then doubling
GrowCap(c) == IF c = 0 THEN 1 ELSE 2 * c

\* arrays no slice of `live` refers to are collected
Collect(h, live) ==
    [a \in ArrIds |-> IF \E s \in live : s.arr = a THEN h[a] ELSE <<>>]

FreeArr(h, live) ==
    CHOOSE a \in ArrIds : h[a] = <<>> /\ \A s \in live : s.arr # a

\* append(s, e): [heap, slice] after the append; writes in place while the
\* capacity lasts, else copies into a new array
AppendSlice(h, live, s, e) ==
    IF s.len < Cap(h, s)
    THEN [heap |-> [h EXCEPT ![s.arr] = [@ EXCEPT ![s.len + 1] = e]],
          slice |-> [arr |-> s.arr, len |-> s.len + 1]]
    ELSE LET a == FreeArr(h, live)
             c == GrowCap(Cap(h, s))
             new == [i \in 1..c |->
                        IF i <= s.len THEN h[s.arr][i]
                        ELSE IF i = s.len + 1 THEN e ELSE ZeroEvent]
         IN  [heap |-> [h EXCEPT ![a] = new],
              slice |-> [arr |-> a, len |-> s.len + 1]]

\* addresses carry no meaning: the stored slice's array is numbered first,
\* the array of the last returned slice after it
Renumber(h, e, r) ==
    LET ea == IF e.arr = 0 THEN 0 ELSE 1
        ra == IF r.arr = 0 THEN 0 ELSE IF r.arr = e.arr THEN ea ELSE ea + 1
    IN  [heap |-> [a \in ArrIds |->
                      IF a = ea THEN h[e.arr] ELSE IF a = ra THEN h[r.arr] ELSE <<>>],
         events |-> [arr |-> ea, len |-> e.len],
         returned |-> [arr |-> ra, len |-> r.len]]

\* time.Since(t)
Since(t) == now - t

\* the values of one return statement of Get, and the line it stands on
Result(evs, stamp, err, line) ==
    [events |-> evs, stamp |-> stamp, err |-> err, line |-> line]

\* the requests a call has sent when it returns at `line`
Sent(line) ==
    IF line <= 91 THEN {} ELSE IF line <= 117 THEN {"HEAD"} ELSE {"HEAD", "GET"}

NoResult == Result(NilSlice, 0, ErrPending, 0)
NoPre == [events |-> <<>>, lastModified |-> 0, lastHashSum |-> <<>>]
NoResp == [fmt |-> "absent", t |-> 0]
NoBody == [kind |-> "none", entries |-> <<>>]
NoStamp == 0 - 1
Intact == [was |-> <<>>, is |-> <<>>]

\* ------------------------------------------------------------------- Init
Start ==
    /\ URL \in {"", "invalid", "valid"}
    /\ Interval \in 0..MaxInterval
    /\ lock = FALSE
    /\ events = NilSlice
    /\ heap = [a \in ArrIds |-> <<>>]
    /\ lastChecked = ZeroTime
    /\ lastHashSum = <<>>
    /\ lastModified = 0
    /\ now = StartNow
    /\ pc = [p \in Procs |-> "idle"]
    /\ resp = NoResp
    /\ httpLastModifiedWasAvailable = FALSE
    /\ ret = NoResult
    /\ pre = NoPre
    /\ good = <<>>
    /\ lastHeadAt = ZeroTime
    /\ refreshRet = [events |-> <<>>, stamp |-> 0, err |-> ErrPending, lm |-> NoStamp]
    /\ blockedOn = {}
    /\ fetched = NoBody
    /\ overwritten = Intact
    /\ invoked = [p \in Procs |-> 0]
    /\ retInv = 0
    /\ InsecureSkipVerify = FALSE

\* the only Cache instance of the process, with SkipTLSVerify at its zero value
Alone == shared = FALSE /\ SkipTLSVerify = FALSE

\* goroutines call Get concurrently
Init == Start /\ timed = FALSE /\ Alone

\* one goroutine calls Get again and again; the invocation times are recorded
InitTimed == Start /\ timed = TRUE /\ Alone

\* one goroutine calls Get on this instance while a second instance, with
\* the opposite SkipTLSVerify, is used in the same process
InitShared == Start /\ timed = FALSE /\ shared = TRUE /\ SkipTLSVerify \in BOOLEAN

Callers == IF timed \/ shared THEN {1} ELSE Procs

\* ---------------------------------------------------------------- returns
\* a return statement of Get: h and e are the heap and the stored slice the
\* call leaves, r what it returns
Return(p, h, e, r) ==
    LET n == Renumber(h, e, r.events)
    IN  /\ heap' = n.heap
        /\ events' = n.events
        /\ ret' = [r EXCEPT !.events = n.returned]
        /\ overwritten' = LET was == Contents(heap, ret.events)
                              is == Contents(h, ret.events)
                          IN  IF was = is THEN Intact ELSE [was |-> was, is |-> is]
        /\ retInv' = invoked[p]
        /\ invoked' = [invoked EXCEPT ![p] = 0]
        /\ timed' = timed

\* the deferred cache.lock.Unlock() of a call that held the lock;
\* passed = the call had stamped lastChecked (it passed the gate)
Unlock(p, h, e, r, passed) ==
    /\ Return(p, h, e, r)
    /\ lock' = FALSE
    /\ pc' = [pc EXCEPT ![p] = "idle"]
    /\ resp' = NoResp
    /\ httpLastModifiedWasAvailable' = FALSE
    /\ pre' = NoPre
    /\ IF passed
       THEN /\ refreshRet' = [events |-> Contents(h, r.events),
                              stamp |-> r.stamp, err |-> r.err,
                              lm |-> IF httpLastModifiedWasAvailable
                                     THEN lastModified ELSE NoStamp]
            /\ blockedOn' = IF pc[p] = "lock" THEN {}
                            ELSE {q \in Procs : pc[q] = "lock"}
       ELSE /\ refreshRet' = refreshRet
            /\ blockedOn' = blockedOn \ {p}

\* ---------------------------------------------------------------- actions
\* faulty variant: a short Interval is raised to the minimum only
ClampToMin(d) == IF d < MinInterval THEN MinInterval ELSE d

\* line 74-76: the Interval the gate will use
Clamp(d) == IF d < MinInterval THEN DefaultInterval ELSE d

\* faulty variant: a disabled cache reports the clock as its stamp
DisabledStamped == Result(NilSlice, now, ErrNil, 72)

\* line 72: what Get returns when no URL is configured
Disabled == Result(NilSlice, 0, ErrNil, 72)

\* lines 70-76: the configuration check, before the lock is taken
Enter(p) ==
    /\ pc[p] = "idle"
    /\ p \in Callers
    /\ IF URL = ""
       THEN /\ Return(p, heap, events, Disabled)
            /\ UNCHANGED <<Interval, pc>>
       ELSE /\ Interval' = Clamp(Interval)
            /\ pc' = [pc EXCEPT ![p] = "lock"]
            /\ invoked' = IF timed THEN [invoked EXCEPT ![p] = now] ELSE invoked
            /\ UNCHANGED <<ret, heap, events, overwritten, timed, retInv>>
    /\ UNCHANGED <<config, InsecureSkipVerify, lock, lastHashSum, lastModified, lastChecked,
                   now, locals, hist>>

\* faulty variant: the gate lets a call through one unit early
FreshTooShort == Since(lastChecked) < Interval - 1

\* line 83: the staleness gate
Fresh == Since(lastChecked) < Interval

\* line 89: http.NewRequest accepts the URL
RequestOk == URL = "valid"

\* faulty variant: Lock() does not wait for the holder
AcquireNoWait(p) == pc[p] = "lock"

\* line 79: cache.lock.Lock() returns
Acquire(p) == pc[p] = "lock" /\ lock = FALSE

\* faulty variant: a cache hit forgets the stamp
CacheHitNoStamp == Result(events, 0, ErrNil, 84)

\* line 84: what Get returns when the gate finds the cache fresh
CacheHit == Result(events, lastModified, ErrNil, 84)

\* faulty variant: the attempt does not stamp lastChecked
StampKept == lastChecked

\* line 86: cache.lastChecked = time.Now()
Stamp == now

\* faulty variant: a failed full fetch returns no events, as a failed extraction does
GetErrorEmpty == Result(NilSlice, 0, ErrGet, 124)

\* lines 91, 101, 109, 124, 135: the returns that hand back the stored snapshot
HeadReqError == Result(events, lastModified, ErrHeadReq, 91)
HeadError == Result(events, lastModified, ErrHead, 101)
Unchanged == Result(events, lastModified, ErrNil, 109)
GetError == Result(events, lastModified, ErrGet, 124)
DecodeError == Result(events, lastModified, ErrDecode, 135)

\* lines 79-98: take the lock, pass or fail the gate, stamp lastChecked,
\* set the transport's TLS policy and send the HEAD request
Lock(p) ==
    /\ Acquire(p)
    /\ IF Fresh
       THEN /\ Unlock(p, heap, events, CacheHit, FALSE)
            /\ UNCHANGED <<lastChecked, lastHeadAt, InsecureSkipVerify>>
       ELSE /\ lastChecked' = Stamp
            /\ IF RequestOk
               THEN /\ InsecureSkipVerify' = SkipTLSVerify
                    /\ lock' = TRUE
                    /\ pc' = [pc EXCEPT ![p] = "head"]
                    /\ pre' = [events |-> Contents(heap, events),
                               lastModified |-> lastModified,
                               lastHashSum |-> lastHashSum]
                    /\ lastHeadAt' = now
                    /\ blockedOn' = blockedOn \ {p}
                    /\ UNCHANGED <<heap, events, ret, locals, refreshRet, overwritten, times>>
               ELSE /\ Unlock(p, heap, events, HeadReqError, TRUE)
                    /\ UNCHANGED <<lastHeadAt, InsecureSkipVerify>>
    /\ fetched' = NoBody
    /\ UNCHANGED <<config, Interval, lastHashSum, lastModified, now, good>>

\* lines 99-102: client.Do(req) of the probe returns: a transport error, or
\* the response headers the upstream sends
HeadDo(p) ==
    /\ pc[p] = "head"
    /\ \/ Unlock(p, heap, events, HeadError, TRUE)
       \/ /\ \E h \in Headers : resp' = h
          /\ pc' = [pc EXCEPT ![p] = "headresp"]
          /\ UNCHANGED <<lock, heap, events, httpLastModifiedWasAvailable, ret, pre,
                         refreshRet, blockedOn, overwritten, times>>
    /\ UNCHANGED <<config, InsecureSkipVerify, Interval, lastHashSum, lastModified,
                   lastChecked, now, good, lastHeadAt, fetched>>

\* faulty variant: an equal stamp counts as a change
NotModifiedStrict(unix) == unix < lastModified

\* line 108: the probe's stamp is not newer than the stored one
NotModified(unix) == unix <= lastModified

\* lines 104-121: compare the Last-Modified header, then send the GET request
HeadCheck(p) ==
    /\ pc[p] = "headresp"
    /\ LET parsed == ParseLastModified(resp)
       IN  IF parsed.ok /\ NotModified(parsed.unix)
           THEN /\ Unlock(p, heap, events, Unchanged, TRUE)
                /\ UNCHANGED lastModified
           ELSE /\ httpLastModifiedWasAvailable' = parsed.ok
                /\ lastModified' = IF parsed.ok THEN parsed.unix ELSE lastModified
                /\ pc' = [pc EXCEPT ![p] = "get"]
                /\ UNCHANGED <<lock, heap, events, resp, ret, pre, refreshRet, blockedOn,
                               overwritten, times>>
    /\ UNCHANGED <<config, InsecureSkipVerify, Interval, lastHashSum, lastChecked, now,
                   good, lastHeadAt, fetched>>

\* faulty variant: the fallback stamp ignores the fingerprint
FallbackStampAlways(hashSum) ==
    IF ~httpLastModifiedWasAvailable THEN now ELSE lastModified

\* lines 140-144: the fallback stamp when the probe carried no Last-Modified
FallbackStamp(hashSum) ==
    IF ~httpLastModifiedWasAvailable /\ hashSum # lastHashSum THEN now ELSE lastModified

\* line 148: the stored slice as the extraction loop starts
ResetEvents(s) == Truncate(s)

\* lines 150-203: the typed accessors of one entry
ExtractEvent(entry) ==
    IF entry.valid THEN [err |-> FALSE, event |-> Event(entry.UID)]
    ELSE [err |-> TRUE, event |-> ZeroEvent]

\* lines 149-220: the extraction loop over the decoded entries, appending to
\* the stored slice s; stops at the first entry that fails. `held` is the
\* slice the last caller still holds.
RECURSIVE ExtractLoop(_, _, _, _)
ExtractLoop(h, held, s, es) ==
    IF es = <<>> THEN [heap |-> h, slice |-> s, err |-> FALSE]
    ELSE LET x == ExtractEvent(Head(es))
         IN  IF x.err THEN [heap |-> h, slice |-> s, err |-> TRUE]
             ELSE LET a == AppendSlice(h, {s, held}, s, x.event)
                  IN  ExtractLoop(Collect(a.heap, {a.slice, held}), held, a.slice, Tail(es))

\* lines 152-200: what Get returns when an accessor fails
ExtractFailure == Result(NilSlice, 0, ErrExtract, 152)

\* faulty variant: a body without calendars leaves the stored slice alone
ClearEventsKept == events

\* line 131: the stored slice after a body without calendars
ClearEvents == NilSlice

\* lines 122-222: client.Do(req) of the full fetch returns a transport error,
\* or the body the upstream sends, which is hashed, decoded and extracted
GetDo(p) ==
    /\ pc[p] = "get"
    /\ \/ /\ Unlock(p, heap, events, GetError, TRUE)
          /\ UNCHANGED <<lastHashSum, lastModified, good, fetched>>
       \/ \E b \in Bodies :
            /\ fetched' = b
            /\ CASE b.kind = "eof" ->
                      /\ Unlock(p, heap, ClearEvents,
                                Result(ClearEvents, lastModified, ErrNil, 132), TRUE)
                      /\ good' = <<>>
                      /\ UNCHANGED <<lastHashSum, lastModified>>
                 [] b.kind = "garbage" ->
                      /\ Unlock(p, heap, events, DecodeError, TRUE)
                      /\ UNCHANGED <<lastHashSum, lastModified, good>>
                 [] OTHER ->
                      LET stamp == FallbackStamp(HashSum(b))
                          x == ExtractLoop(heap, ret.events, ResetEvents(events), b.entries)
                      IN  /\ lastModified' = stamp
                          /\ lastHashSum' = HashSum(b)
                          /\ IF x.err
                             THEN /\ Unlock(p, x.heap, x.slice, ExtractFailure, TRUE)
                                  /\ good' = good
                             ELSE /\ Unlock(p, x.heap, x.slice,
                                            Result(x.slice, stamp, ErrNil, 222), TRUE)
                                  /\ good' = Contents(x.heap, x.slice)
    /\ UNCHANGED <<config, InsecureSkipVerify, Interval, lastChecked, now, lastHeadAt>>

\* the local clock advances
Tick ==
    /\ now < MaxNow
    /\ now - StartNow < MaxPeriods * Clamp(Interval)
    /\ now' = now + 1
    /\ UNCHANGED <<config, InsecureSkipVerify, Interval, lock, store, heap, lastChecked,
                   pc, locals, ret, hist, overwritten, times>>

\* lines 96-98 in a call on the second Cache instance, under that instance's
\* own lock: it stores its SkipTLSVerify in the transport both instances use
OtherGet ==
    /\ shared
    /\ InsecureSkipVerify' = ~SkipTLSVerify
    /\ UNCHANGED <<config, Interval, lock, store, heap, lastChecked, now, pc, locals, ret,
                   hist, overwritten, times>>

Next ==
    \/ \E p \in Procs : Enter(p)
    \/ \E p \in Procs : Lock(p)
    \/ \E p \in Procs : HeadDo(p)
    \/ \E p \in Procs : HeadCheck(p)
    \/ \E p \in Procs : GetDo(p)
    \/ Tick

Spec == Init /\ [][Next]_vars

SpecTimed == InitTimed /\ [][Next]_vars

\* the process with the second instance
NextShared == Next \/ OtherGet

SpecShared == InitShared /\ [][NextShared]_vars

TypeOK ==
    /\ lock \in BOOLEAN
    /\ InsecureSkipVerify \in BOOLEAN
    /\ pc \in [Procs -> {"idle", "lock", "head", "headresp", "get"}]
    /\ now \in StartNow..MaxNow

\* ------------------------------------------------------------ properties
InFlight(p) == pc[p] \in {"head", "headresp", "get"}

\* goroutine p takes the lock in this step
Acquires(p) == pc[p] = "lock" /\ pc'[p] # "lock"

\* goroutine p returns from a call that held the lock in this step
Returns(p) == pc[p] # "idle" /\ pc'[p] = "idle"

\* the stored events, stamp and fingerprint are the same after the step
StoreKept ==
    /\ Contents(heap', events') = Contents(heap, events)
    /\ lastModified' = lastModified
    /\ lastHashSum' = lastHashSum

\* the step's return hands back the stored snapshot as it was before the step
ReturnsStored ==
    /\ Contents(heap', ret'.events) = Contents(heap, events)
    /\ ret'.stamp = lastModified

\* C1: at most one call is between the staleness re-check and its return,
\* and while one is, no other caller gets past cache.lock.Lock().
C1_SingleFlight ==
    [][/\ Cardinality({p \in Procs : pc'[p] \in {"head", "headresp", "get"}}) <= 1
       /\ \A q \in Procs :
            (pc[q] = "lock" /\ \E p \in Procs \ {q} : InFlight(p)) => pc'[q] = "lock"]_vars

C1_Witness == \E p, q \in Procs : pc[p] = "get" /\ pc[q] = "lock"

\* C2: a call that takes the lock less than Interval after lastChecked sends
\* no request, returns the stored events and stamp with a nil error and
\* leaves events, lastModified, lastHashSum and lastChecked alone, whatever
\* the outcome of the attempt that stamped lastChecked.
C2_FreshHitFrame ==
    [][\A p \in Procs :
         (Acquires(p) /\ now - lastChecked < Interval) =>
            /\ pc'[p] = "idle"
            /\ Sent(ret'.line) = {}
            /\ ret'.err = ErrNil
            /\ ReturnsStored
            /\ StoreKept
            /\ lastChecked' = lastChecked]_vars

\* a cache hit right after an attempt whose full fetch failed
C2_Witness ==
    /\ ret.line = 84
    /\ refreshRet.err \in {ErrGet, ErrDecode, ErrExtract}
    /\ ret.events.len > 0

\* C3: two attempts that send a HEAD request are at least Interval apart:
\* when a HEAD is sent, the previous one was sent Interval or more before,
\* and the new lastChecked stamp lies Interval or more after it.
C3_HeadSpacing ==
    [][\A p \in Procs :
         (pc[p] = "lock" /\ pc'[p] = "head" /\ lastHeadAt # ZeroTime) =>
            /\ now - lastHeadAt >= Interval'
            /\ lastChecked' - lastHeadAt >= Interval']_vars

\* a second HEAD request is on its way
C3_Witness ==
    /\ \E p \in Procs : pc[p] = "head"
    /\ refreshRet.err \notin {ErrPending, ErrHeadReq}
    /\ lastChecked - Interval >= StartNow

\* C4 (as claimed): whenever no call holds the lock, the stored events are
\* the result of the last fully successful decode-and-extract pass (or the
\* initial empty sequence).
C4_StoreIsLastGood == ~lock => Contents(heap, events) = good

\* C5 (as claimed): an attempt that ends with a transport error on the GET or
\* a decode error leaves events, lastModified and lastHashSum as they were
\* before the call.
C5_FailedFetchKeepsStore ==
    [][\A p \in Procs :
         (Returns(p) /\ ret'.line \in {124, 135}) =>
            /\ Contents(heap', events') = pre.events
            /\ lastModified' = pre.lastModified
            /\ lastHashSum' = pre.lastHashSum]_vars

\* C6: a transport error on the HEAD or on the GET leaves the stored events
\* as they were before the attempt, and the call returns those events with a
\* non-nil error.
C6_TransportErrorKeepsEvents ==
    [][\A p \in Procs :
         (Returns(p) /\ ret'.line \in {101, 124}) =>
            /\ Contents(heap', events') = pre.events
            /\ Contents(heap', ret'.events) = pre.events
            /\ ret'.err # ErrNil]_vars

\* a failed full fetch handed back a non-empty stored sequence
C6_Witness == ret.line = 124 /\ ret.events.len > 0 /\ ~lock

\* C7 (as claimed): a caller that was blocked on a refresh and then finds the
\* cache fresh returns exactly what the refreshing call returned (events,
\* stamp and error), and what it gets is never a partially updated store.
C7_BlockedGetRefreshResult ==
    [][\A q \in Procs :
         (Acquires(q) /\ q \in blockedOn /\ ret'.line = 84) =>
            /\ Contents(heap', ret'.events) = refreshRet.events
            /\ ret'.stamp = refreshRet.stamp
            /\ ret'.err = refreshRet.err
            /\ Contents(heap', ret'.events) = good]_vars

C10_ChangedHeaderFetches ==
    [][\A p \in Procs :
         (pc[p] = "headresp" /\ pc'[p] # "headresp"
            /\ resp.fmt = "httpdate" /\ resp.t # lastModified) =>
            pc'[p] = "get"]_vars

\* a body that decodes to no entries: no calendar at all, or a calendar
\* without events
NoEntries(b) == b.kind = "eof" \/ (b.kind = "cal" /\ b.entries = <<>>)

\* a calendar body with entries, every one of which can be extracted
AllValid(b) ==
    /\ b.kind = "cal"
    /\ b.entries # <<>>
    /\ \A i \in 1..Len(b.entries) : b.entries[i].valid

\* C11: a full fetch whose body decodes to no entries returns an empty
\* sequence with a nil error and leaves the stored sequence empty, and the
\* cache hit that follows returns an empty sequence with a nil error too.
C11_NoEntriesIsSuccess ==
    [][\A p \in Procs :
         /\ (Returns(p) /\ NoEntries(fetched')) =>
               /\ ret'.err = ErrNil
               /\ Contents(heap', ret'.events) = <<>>
               /\ Contents(heap', events') = <<>>
         /\ (Acquires(p) /\ NoEntries(fetched) /\ ret'.line = 84) =>
               /\ ret'.err = ErrNil
               /\ Contents(heap', ret'.events) = <<>>]_vars

\* a cache hit returned the empty sequence after a body without calendars
\* had cleared a stored list
C11_Witness ==
    /\ ret.line = 84
    /\ events = NilSlice
    /\ refreshRet.err = ErrNil
    /\ \E b \in Bodies : AllValid(b) /\ lastHashSum = HashSum(b)

\* goroutine p leaves the probe's header check in this step
HeaderChecked(p) == pc[p] = "headresp" /\ pc'[p] # "headresp"

\* goroutine p returns in this step from a full fetch whose body decoded
Decoded(p) == pc[p] = "get" /\ Returns(p) /\ fetched'.kind = "cal"

C13_DisabledCache ==
    [][URL = "" =>
         /\ \A p \in Procs : pc'[p] = "idle"
         /\ lock' = FALSE
         /\ ret'.line # 0 =>
               /\ Sent(ret'.line) = {}
               /\ Contents(heap', ret'.events) = <<>>
               /\ ret'.stamp = 0
               /\ ret'.err = ErrNil
         /\ UNCHANGED <<events, lastChecked, lastModified, lastHashSum, Interval>>]_vars

\* a call on a disabled cache has returned, with an Interval the clamp
\* would have replaced, after the clock has advanced
C13_Witness ==
    /\ URL = ""
    /\ ret.line = 72
    /\ Interval < MinInterval
    /\ now > StartNow

\* goroutine p takes the lock and passes the staleness gate in this step
PassesGate(p) ==
    /\ Acquires(p)
    /\ pc'[p] = "head" \/ (pc'[p] = "idle" /\ ret'.line = 91)

\* C14: Interval only ever changes from a value below 30 seconds to 2
\* minutes, which a call does before it reaches the lock; the gate is
\* evaluated with an Interval of 30 seconds or more; and a refresh attempt
\* comes 30 seconds or more after the attempt before it.
C14_IntervalClamped ==
    [][/\ Interval' # Interval => (Interval < MinInterval /\ Interval' = DefaultInterval)
       /\ \A p \in Procs :
            /\ (pc[p] = "idle" /\ pc'[p] = "lock" /\ Interval < MinInterval) =>
                  Interval' = DefaultInterval
            /\ Acquires(p) => Interval >= MinInterval
            /\ (PassesGate(p) /\ lastChecked # ZeroTime) =>
                  now - lastChecked >= MinInterval]_vars

\* a second attempt is in flight on an instance whose zero Interval was
\* replaced by the default
C14_Witness ==
    /\ Interval = DefaultInterval
    /\ refreshRet.err # ErrPending
    /\ \E p \in Procs : InFlight(p)

\* C15 (as claimed): a sequence a call has returned is never changed by a
\* later call, in length or in content.
C15_ReturnedNeverChanged == overwritten.is = overwritten.was

\* goroutine p's client.Do(req) runs in this step
Requests(p) == pc[p] \in {"head", "get"} /\ pc'[p] # pc[p]

\* C16 (as claimed): every HEAD and every GET of this instance runs while
\* the transport holds this instance's own SkipTLSVerify.
C16_OwnTLSPolicy ==
    [][\A p \in Procs : Requests(p) => InsecureSkipVerify = SkipTLSVerify]_vars

\* C17 (as claimed): the sequence a call returns is empty, or the complete
\* list of a fetched body every entry of which was extracted (the last such
\* list, as nothing else is ever stored whole).
C17_NeverIncomplete ==
    ret.line # 0 =>
        \/ Contents(heap, ret.events) = <<>>
        \/ Contents(heap, ret.events) = good

\* C18 (as claimed): when the attempt before adopted a newer Last-Modified
\* and then failed on the GET or the decode, an attempt whose probe carries
\* that same Last-Modified goes on to the GET.
C18_FailedFetchRetried ==
    [][\A p \in Procs :
         (HeaderChecked(p)
            /\ refreshRet.err \in {ErrGet, ErrDecode}
            /\ refreshRet.lm # NoStamp
            /\ resp.fmt = "httpdate" /\ resp.t = refreshRet.lm) =>
            pc'[p] = "get"]_vars

\* C19 (as claimed, in the case it names): when a call whose full fetch got
\* a body without calendars and the call before it both return a nil error
\* and their event sequences differ, their stamps differ.
C19_StampSignalsChange ==
    [][\A p \in Procs :
         (Returns(p) /\ fetched'.kind = "eof"
            /\ ret.err = ErrNil /\ ret'.err = ErrNil
            /\ Contents(heap', ret'.events) # Contents(heap, ret.events)) =>
            ret'.stamp # ret.stamp]_vars

\* C20 (as claimed): the stored stamp never decreases.
C20_StampMonotonic == [][lastModified' >= lastModified]_vars

\* the fingerprints of the modelled bodies are pairwise different
HashesDistinct == Cardinality({HashTable[b] : b \in Bodies}) = Cardinality(Bodies)

====
